---- MODULE Spec2Model ----
(***************************************************************************)
(* httpmocker: the configuration loader (config_loader.py), the request    *)
(* dispatcher (request_handler.py) and the process entry point             *)
(* (__main__.py) as one state machine.                                     *)
(*                                                                         *)
(* Strings are sequences of Unicode code points (integers), so that        *)
(* str.isupper, letter case, the leading and trailing "/" of a path, JSON  *)
(* serialization and UTF-8 byte lengths are computed, not assumed.         *)
(* An Optional[...] value is a sequence of length 0 (None) or 1.           *)
(***************************************************************************)
EXTENDS Integers, Sequences, FiniteSets, TLC

VARIABLES
    cfgfile,        \* the configuration file named by --config, as found on disk
    files,          \* content of the payload file "f" on disk, now
    phase,          \* where main() is: "start", "loaded", "serving", "exited"
    exit_code,      \* Optional: the process exit status once phase = "exited"
    config,         \* Optional: the Config returned by load_config
    endpoint_map,   \* create_app's lookup table: (method, path) -> Endpoint
    pc,             \* the server's single thread: "idle" or "delay"
    req,            \* Optional: the request being handled / handled last
    endpoint,       \* Optional: the endpoint that request matched
    elapsed,        \* ms slept so far by _interruptible_delay for that request
    payload_read,   \* Optional: what load_payload_file found on disk for it
    resp,           \* Optional: the response given to that request
    raised,         \* Optional: the exception that left that request's handler
    log,            \* observer notifications of that request, in order
    steps,          \* what _handle_matched_endpoint did for it, in order
    main_trace      \* what main() did so far, in order

vars == <<cfgfile, files, phase, exit_code, config, endpoint_map, pc,
          req, endpoint, elapsed, payload_read, resp, raised, log, steps,
          main_trace>>

(***************************************************************************)
(* Bounds of the model.                                                    *)
(***************************************************************************)
MaxEndpoints == 2
\* the longest delay_ms of the delay loop's own specification, SpecDelay
MaxDelayMs == 1000

(***************************************************************************)
(* Strings.                                                                *)
(***************************************************************************)
GET == <<71, 69, 84>>
HEAD == <<72, 69, 65, 68>>
POST == <<80, 79, 83, 84>>
PUT == <<80, 85, 84>>
DELETE == <<68, 69, 76, 69, 84, 69>>
PATCH == <<80, 65, 84, 67, 72>>
OPTIONS == <<79, 80, 84, 73, 79, 78, 83>>
TRACE == <<84, 82, 65, 67, 69>>
get == <<103, 101, 116>>

Root == <<47>>                          \* "/"
PathFoo == <<47, 102, 111, 111>>        \* "/foo"
PathFooUpper == <<47, 70, 111, 111>>    \* "/Foo"
PathFooSlash == <<47, 102, 111, 111, 47>>  \* "/foo/"
EmptyPath == <<>>                       \* ""

NoQuery == <<>>
QueryX == <<120, 61, 49>>               \* "x=1"

None == <<>>
Some(x) == <<x>>
IsNone(o) == o = <<>>
The(o) == o[1]

Min(a, b) == IF a <= b THEN a ELSE b

\* str.isupper(): no lower-case letter and at least one upper-case letter
IsLowerChar(c) == c >= 97 /\ c <= 122
IsUpperChar(c) == c >= 65 /\ c <= 90
isupper(v) ==
    /\ \A i \in 1..Len(v) : ~IsLowerChar(v[i])
    /\ \E i \in 1..Len(v) : IsUpperChar(v[i])

\* len(s.encode('utf-8'))
Utf8Bytes(c) == IF c < 128 THEN 1 ELSE IF c < 2048 THEN 2 ELSE IF c < 65536 THEN 3 ELSE 4
RECURSIVE Utf8Len(_)
Utf8Len(s) == IF s = <<>> THEN 0 ELSE Utf8Bytes(Head(s)) + Utf8Len(Tail(s))

(***************************************************************************)
(* JSON values: an object is the sequence of its members, each a key and   *)
(* a string value.                                                         *)
(***************************************************************************)
DocEmpty == <<>>                                            \* {}
DocA == <<[key |-> <<107>>, val |-> <<97>>]>>               \* {"k": "a"}
DocU == <<[key |-> <<107>>, val |-> <<233, 8364>>]>>        \* {"k": "é€"}
Docs == {DocEmpty, DocA, DocU}

\* json's string escaping with ensure_ascii=False: only '"' and '\' (and
\* control characters, which no value here holds) are escaped
RECURSIVE JsonEscape(_)
JsonEscape(s) ==
    IF s = <<>> THEN <<>>
    ELSE (IF Head(s) \in {34, 92} THEN <<92, Head(s)>> ELSE <<Head(s)>>)
         \o JsonEscape(Tail(s))

JsonString(s) == <<34>> \o JsonEscape(s) \o <<34>>

RECURSIVE JsonMembers(_, _, _)
JsonMembers(d, itemsep, keysep) ==
    IF d = <<>> THEN <<>>
    ELSE JsonString(Head(d).key) \o keysep \o JsonString(Head(d).val)
         \o (IF Tail(d) = <<>> THEN <<>> ELSE itemsep)
         \o JsonMembers(Tail(d), itemsep, keysep)

\* json.dumps(payload, ensure_ascii=False): separators ", " and ": "
json_dumps(d) == <<123>> \o JsonMembers(d, <<44, 32>>, <<58, 32>>) \o <<125>>

\* the same value written without insignificant whitespace
JsonCompact(d) == <<123>> \o JsonMembers(d, <<44>>, <<58>>) \o <<125>>

RECURSIVE StripWs(_)
StripWs(s) ==
    IF s = <<>> THEN <<>>
    ELSE (IF Head(s) \in {32, 10} THEN <<>> ELSE <<Head(s)>>) \o StripWs(Tail(s))

(***************************************************************************)
(* The payload file on disk: absent, or a text.                            *)
(***************************************************************************)
TextA == JsonCompact(DocA)                      \* {"k":"a"}
TextU == <<123, 10, 32>> \o JsonString(<<107>>) \o <<32, 58, 32>>
         \o JsonString(<<233, 8364>>) \o <<10, 125>>   \* pretty-printed
TextBad == <<123, 34, 107, 34, 58>>             \* {"k":   (truncated)
FileTexts == {TextA, TextU, TextBad}
FileMissing == [exists |-> FALSE, text |-> <<>>]
FileWith(t) == [exists |-> TRUE, text |-> t]
FileStates == {FileMissing} \cup {FileWith(t) : t \in FileTexts}

FileF == <<102>>                                \* the payload file's name, "f"

\* json.load(f): whitespace between tokens is insignificant; a text that is
\* no JSON document raises JSONDecodeError
JsonParses(text) == \E d \in Docs : JsonCompact(d) = StripWs(text)
json_load(text) == CHOOSE d \in Docs : JsonCompact(d) = StripWs(text)

(***************************************************************************)
(* config_loader.py: Endpoint, Config, load_config.                        *)
(***************************************************************************)
Ep(m, p, s, d, inl, f) ==
    [method |-> m, path |-> p, status |-> s, delay_ms |-> d,
     payload_inline |-> inl, payload_file |-> f]

\* a payload_file of "": a string, and false where the loader tests it
NoName == <<>>

\* The endpoint objects a configuration file may hold: accepted ones ...
ValidRawEndpoints ==
    { Ep(GET, PathFoo, 200, 0, Some(DocA), None),
      Ep(GET, PathFoo, 204, 250, None, Some(FileF)),
      Ep(HEAD, PathFoo, 200, 0, Some(DocU), None),
      Ep(HEAD, Root, 204, 0, Some(DocA), None),
      Ep(HEAD, PathFooUpper, 599, 250, None, Some(FileF)),
      Ep(GET, Root, 100, 0, None, Some(FileF)),
      Ep(TRACE, PathFoo, 200, 0, Some(DocA), None),
      Ep(GET, EmptyPath, 200, 0, Some(DocEmpty), None),
      Ep(GET, PathFooUpper, 200, 200, Some(DocEmpty), None),
      Ep(GET, PathFoo, 200, 0, None, Some(NoName)) }

\* ... and ones that break one construction rule each
InvalidRawEndpoints ==
    { Ep(get, PathFoo, 200, 0, Some(DocA), None),
      Ep(GET, PathFoo, 99, 0, Some(DocA), None),
      Ep(GET, PathFoo, 600, 0, Some(DocA), None),
      Ep(GET, PathFoo, 200, -1, Some(DocA), None),
      Ep(GET, PathFoo, 200, 0, None, None),
      Ep(GET, PathFoo, 200, 0, Some(DocA), Some(FileF)) }

RawEndpoints == ValidRawEndpoints \cup InvalidRawEndpoints

SeqsUpTo(S, n) == UNION { [1..k -> S] : k \in 0..n }

CfgMissing == [kind |-> "missing", endpoints |-> <<>>]
CfgMalformed == [kind |-> "malformed", endpoints |-> <<>>]
CfgJson(eps) == [kind |-> "json", endpoints |-> eps]
ConfigFiles ==
    {CfgMissing, CfgMalformed} \cup {CfgJson(eps) : eps \in SeqsUpTo(RawEndpoints, MaxEndpoints)}

validate_method(v) == isupper(v)
validate_status(v) == 100 <= v /\ v <= 599
validate_delay(v) == ~(v < 0)

\* (mutant) only the absence of both payload sources is rejected
PayloadSourcesOk_AtLeastOne(raw) ==
    ~(IsNone(raw.payload_inline) /\ IsNone(raw.payload_file))

\* Endpoint.__init__: the field validators, then exactly one payload source
PayloadSourcesOk(raw) ==
    LET has_inline == ~IsNone(raw.payload_inline)
        has_file == ~IsNone(raw.payload_file)
    IN  /\ ~(~has_inline /\ ~has_file)
        /\ ~(has_inline /\ has_file)

EndpointOk(raw) ==
    /\ validate_method(raw.method)
    /\ validate_status(raw.status)
    /\ validate_delay(raw.delay_ms)
    /\ PayloadSourcesOk(raw)

\* Config.validate_endpoints_not_empty
validate_endpoints_not_empty(v) == v # <<>>

\* Config(**config_data): every endpoint is constructed, then the list checked
ConfigOk(eps) ==
    /\ \A i \in 1..Len(eps) : EndpointOk(eps[i])
    /\ validate_endpoints_not_empty(eps)

\* os.path.exists on a payload path: "f" is the only file there may be
PathExists(name, fs) == name = FileF /\ fs.exists

\* _validate_payload_files: the payload files that are named and missing
missing_files(eps, fs) ==
    { i \in 1..Len(eps) :
        /\ ~IsNone(eps[i].payload_file)
        /\ The(eps[i].payload_file) # NoName
        /\ ~PathExists(The(eps[i].payload_file), fs) }

\* load_config: Some(config), or None where it raises SystemExit(1)
load_config(cf, fs) ==
    IF cf.kind = "missing" THEN None
    ELSE IF cf.kind = "malformed" THEN None
    ELSE IF ~ConfigOk(cf.endpoints) THEN None
    ELSE IF missing_files(cf.endpoints, fs) # {} THEN None
    ELSE Some(cf.endpoints)

\* load_payload_file: Some(payload), or None where it raises SystemExit(1)
load_payload_file(name, fs) ==
    IF ~PathExists(name, fs) THEN None
    ELSE IF ~JsonParses(fs.text) THEN None
    ELSE Some(json_load(fs.text))

(***************************************************************************)
(* request_handler.py: create_app's table and the two route handlers.      *)
(***************************************************************************)
EmptyMap == [k \in {} |-> None]
MapPut(m, k, v) == [x \in (DOMAIN m) \cup {k} |-> IF x = k THEN v ELSE m[x]]
EndpointKey(e) == <<e.method, e.path>>

\* for endpoint in config.endpoints: endpoint_map[key] = endpoint
RECURSIVE BuildMap(_, _)
BuildMap(eps, m) ==
    IF eps = <<>> THEN m
    ELSE BuildMap(Tail(eps), MapPut(m, EndpointKey(Head(eps)), Head(eps)))

create_app(eps) == BuildMap(eps, EmptyMap)

\* endpoint_map.get(key)
MapGet(m, k) == IF k \in DOMAIN m THEN Some(m[k]) ELSE None

\* the methods both routes are registered for
RoutedMethods == {GET, POST, PUT, DELETE, PATCH, HEAD, OPTIONS}

\* The requests the model sends: PATH_INFO always starts with "/"
RequestMethods == {GET, HEAD, TRACE}
RequestPaths == {Root, PathFoo, PathFooUpper, PathFooSlash}
RequestQueries == {NoQuery, QueryX}
Requests == [method : RequestMethods, path : RequestPaths, query : RequestQueries]

\* which route takes the request: '/' (handle_root), '/<path:path>'
\* (handle_request, path = what follows the first "/"), or none
Route(r) ==
    IF r.method \notin RoutedMethods THEN "none"
    ELSE IF r.path = Root THEN "handle_root"
    ELSE IF Len(r.path) >= 2 /\ Head(r.path) = 47 THEN "handle_request"
    ELSE "none"

\* handle_request: full_path = f"/{path}" if path else "/"
full_path(path) == IF path # <<>> THEN <<47>> \o path ELSE Root

\* (mutant) the key is built from a path without its trailing "/"
endpoint_key_strip(r) ==
    LET p == r.path
    IN  IF Len(p) > 1 /\ p[Len(p)] = 47
        THEN <<r.method, SubSeq(p, 1, Len(p) - 1)>>
        ELSE <<r.method, p>>

\* (mutant) the key is built from the request target, query string included
endpoint_key_query(r) ==
    IF r.query = <<>> THEN <<r.method, r.path>>
    ELSE <<r.method, r.path \o <<63>> \o r.query>>

\* endpoint_key of the request, as the route's handler builds it
endpoint_key(r) ==
    IF Route(r) = "handle_root" THEN <<r.method, Root>>
    ELSE <<r.method, full_path(Tail(r.path))>>

\* (mutant) a cache between requests: the endpoint matched last is reused
Match_Cached(r, m) ==
    IF ~IsNone(endpoint) THEN endpoint ELSE MapGet(m, endpoint_key(r))

\* endpoint = endpoint_map.get(endpoint_key)
Match(r, m) == MapGet(m, endpoint_key(r))

(***************************************************************************)
(* Responses.  "by" tells who produced it: the dispatcher's handlers, the  *)
(* framework's router (no route for the method), or the transport (an      *)
(* exception left the handler).                                            *)
(***************************************************************************)
AppJson == "application/json"

Response(by, status, ctype, clen, body) ==
    [by |-> by, status |-> status, content_type |-> ctype,
     content_length |-> clen, body |-> body]

\* {"error": "endpoint not found"}, the dict _handle_unmatched_request returns
NotFoundDoc ==
    <<[key |-> <<101, 114, 114, 111, 114>>,
       val |-> <<101, 110, 100, 112, 111, 105, 110, 116, 32, 110, 111, 116, 32,
                 102, 111, 117, 110, 100>>]>>

\* (mutant) response.status = 404 is left out: the default status stays
NotFoundResponse_NoStatus ==
    Response("dispatcher", 200, Some(AppJson), None, json_dumps(NotFoundDoc))

\* _handle_unmatched_request: status 404, JSON content type, the dict as body
NotFoundResponse ==
    Response("dispatcher", 404, Some(AppJson), None, json_dumps(NotFoundDoc))

\* no route is registered for the request's method: the router answers
MethodNotAllowed == Response("framework", 405, None, None, <<>>)

\* an exception left the handler and the transport answered in its place
ServerError == Response("transport", 500, None, None, <<>>)

\* _handle_matched_endpoint, "# Get payload": Some(payload), or None where
\* load_payload_file raises SystemExit
ResolvePayload(e, fs) ==
    IF ~IsNone(e.payload_inline) THEN e.payload_inline
    ELSE load_payload_file(The(e.payload_file), fs)

\* (mutant) the HEAD rule is tested before the 204 rule
MatchedResponse_HeadFirst(e, method, payload) ==
    IF method = HEAD
    THEN Response("dispatcher", e.status, Some(AppJson),
                  Some(Utf8Len(json_dumps(payload))), <<>>)
    ELSE IF e.status = 204
    THEN Response("dispatcher", e.status, None, None, <<>>)
    ELSE Response("dispatcher", e.status, Some(AppJson), None, json_dumps(payload))

\* (mutant) Content-Length counts characters, not UTF-8 bytes
MatchedResponse_CharLen(e, method, payload) ==
    IF e.status = 204
    THEN Response("dispatcher", e.status, None, None, <<>>)
    ELSE IF method = HEAD
    THEN Response("dispatcher", e.status, Some(AppJson),
                  Some(Len(json_dumps(payload))), <<>>)
    ELSE Response("dispatcher", e.status, Some(AppJson), None, json_dumps(payload))

\* _handle_matched_endpoint, "# Handle HTTP semantics properly"
MatchedResponse(e, method, payload) ==
    IF e.status = 204
    THEN Response("dispatcher", e.status, None, None, <<>>)
    ELSE IF method = HEAD
    THEN Response("dispatcher", e.status, Some(AppJson),
                  Some(Utf8Len(json_dumps(payload))), <<>>)
    ELSE Response("dispatcher", e.status, Some(AppJson), None, json_dumps(payload))

\* _interruptible_delay, in ms: the next sleep, and the loop's exit test
chunk_size == 100
\* (mutant) every sleep is a whole chunk
sleep_time_WholeChunk(delay_ms, el) == chunk_size

sleep_time(delay_ms, el) == Min(chunk_size, delay_ms - el)

\* (mutant) the loop ends after its first sleep
delay_done_once(delay_ms, el) == el > 0

delay_done(delay_ms, el) == ~(el < delay_ms)

(***************************************************************************)
(* The state machine.                                                      *)
(***************************************************************************)
\* one entry of steps: a time.sleep of ms milliseconds, the assignment of
\* response.status, or the payload being obtained
Step(op, ms) == [op |-> op, ms |-> ms]

\* log_response_sent(...): the last notification of a handled request
log_response_sent(lg) == lg \o <<"response_sent">>

\* (mutant) the payload is obtained before response.status is assigned
handler_tail_PayloadFirst(st) == st \o <<Step("payload", 0), Step("status", 0)>>

\* _handle_matched_endpoint after the delay: "# Set response status", then
\* "# Get payload"
handler_tail(st) == st \o <<Step("status", 0), Step("payload", 0)>>

Init ==
    /\ cfgfile \in ConfigFiles
    /\ files \in FileStates
    /\ phase = "start"
    /\ exit_code = None
    /\ config = None
    /\ endpoint_map = EmptyMap
    /\ pc = "idle"
    /\ req = None
    /\ endpoint = None
    /\ elapsed = 0
    /\ payload_read = None
    /\ resp = None
    /\ raised = None
    /\ log = <<>>
    /\ steps = <<>>
    /\ main_trace = <<>>

\* sys.exit(code) / SystemExit(code) reaching the top of main(), or main()
\* returning (code 0), after the events ev
Exit(code, ev) ==
    /\ phase' = "exited"
    /\ exit_code' = Some(code)
    /\ main_trace' = main_trace \o ev

\* main(): config = load_config(args.config)
LoadConfig ==
    /\ phase = "start"
    /\ LET c == load_config(cfgfile, files)
       IN  IF IsNone(c)
           THEN Exit(1, <<"load_config", "SystemExit">>) /\ UNCHANGED config
           ELSE /\ phase' = "loaded"
                /\ config' = c
                /\ main_trace' = main_trace \o <<"load_config">>
                /\ UNCHANGED exit_code
    /\ UNCHANGED <<cfgfile, files, endpoint_map, pc, req, endpoint,
                   elapsed, payload_read, resp, raised, log, steps>>

\* (mutant) the port is checked before args.validate_config is looked at
ValidateOnly_AfterPortCheck ==
    /\ phase = "loaded"
    /\ \E port_free \in BOOLEAN :
         IF port_free
         THEN Exit(0, <<"check_port_available", "validate_config">>)
         ELSE Exit(1, <<"check_port_available", "SystemExit">>)
    /\ UNCHANGED <<cfgfile, files, config, endpoint_map, pc, req,
                   endpoint, elapsed, payload_read, resp, raised, log, steps>>

\* main() with --validate-config: report and return
ValidateOnly ==
    /\ phase = "loaded"
    /\ Exit(0, <<"validate_config">>)
    /\ UNCHANGED <<cfgfile, files, config, endpoint_map, pc, req,
                   endpoint, elapsed, payload_read, resp, raised, log, steps>>

\* how main() can go on from check_port_available when the config is not
\* only validated: the port is taken; the server's bind raises OSError;
\* some other Exception is raised; the server runs
StartOutcomes == {"port_in_use", "bind_error", "error", "run"}

\* main(): check_port_available, create_app, log_server_startup, run(app, ...)
StartServer ==
    /\ phase = "loaded"
    /\ \E outcome \in StartOutcomes :
         IF outcome = "port_in_use"
         THEN /\ Exit(1, <<"check_port_available", "SystemExit">>)
              /\ UNCHANGED endpoint_map
         ELSE /\ endpoint_map' = create_app(The(config))
              /\ IF outcome = "bind_error"
                 THEN Exit(1, <<"check_port_available", "create_app",
                                "log_server_startup", "run", "OSError",
                                "SystemExit">>)
                 ELSE IF outcome = "error"
                 THEN Exit(1, <<"check_port_available", "create_app",
                                "log_server_startup", "run", "Exception",
                                "SystemExit">>)
                 ELSE /\ phase' = "serving"
                      /\ main_trace' = main_trace \o
                            <<"check_port_available", "create_app",
                              "log_server_startup", "run">>
                      /\ UNCHANGED exit_code
    /\ UNCHANGED <<cfgfile, files, config, pc, req, endpoint, elapsed,
                   payload_read, resp, raised, log, steps>>

\* the payload file is rewritten or removed while the process runs
FileChange ==
    /\ phase \in {"loaded", "serving"}
    /\ \E f \in FileStates : f # files /\ files' = f
    /\ UNCHANGED <<cfgfile, phase, exit_code, config, endpoint_map, pc,
                   req, endpoint, elapsed, payload_read, resp, raised, log,
                   steps, main_trace>>

\* _handle_matched_endpoint from "# Set response status" on, for endpoint e,
\* request method m, the notifications lg and the steps st made so far.
\* SystemExit from load_payload_file leaves the handler: the transport either
\* answers 500 itself and goes on, or lets it reach main(), which re-raises it.
Finish(e, m, lg, st) ==
    LET payload == ResolvePayload(e, files)
    IN  /\ payload_read' = IF IsNone(e.payload_inline) THEN Some(files) ELSE None
        /\ steps' = handler_tail(st)
        /\ pc' = "idle"
        /\ IF IsNone(payload)
           THEN /\ log' = lg
                /\ raised' = Some("SystemExit")
                /\ \/ /\ resp' = Some(ServerError)
                      /\ UNCHANGED <<phase, exit_code, main_trace>>
                   \/ /\ resp' = None
                      /\ Exit(1, <<"SystemExit">>)
           ELSE /\ resp' = Some(MatchedResponse(e, m, The(payload)))
                /\ raised' = None
                /\ log' = log_response_sent(lg)
                /\ UNCHANGED <<phase, exit_code, main_trace>>

\* A client's request r arrives and is accepted.  run(app, host, port, quiet)
\* starts the framework's default server, which handles one request at a
\* time on one thread: it accepts the next only when the handler of the
\* last has returned (pc = "idle").  The route's handler then runs up to its
\* first sleep, or to its end.
Dispatch(r) ==
    /\ phase = "serving"
    /\ pc = "idle"
    /\ req' = Some(r)
    /\ IF Route(r) = "none"
       THEN /\ resp' = Some(MethodNotAllowed)
            /\ endpoint' = None
            /\ log' = <<>>
            /\ steps' = <<>>
            /\ elapsed' = 0
            /\ payload_read' = None
            /\ raised' = None
            /\ UNCHANGED <<pc, phase, exit_code, main_trace>>
       ELSE LET ep == Match(r, endpoint_map)
                lg == <<"request_received">>
            IN  /\ endpoint' = ep
                /\ elapsed' = 0
                /\ IF IsNone(ep)
                   THEN /\ resp' = Some(NotFoundResponse)
                        /\ log' = log_response_sent(lg \o <<"response_not_found">>)
                        /\ steps' = <<>>
                        /\ payload_read' = None
                        /\ raised' = None
                        /\ UNCHANGED <<pc, phase, exit_code, main_trace>>
                   ELSE IF The(ep).delay_ms > 0
                   THEN /\ pc' = "delay"
                        /\ resp' = None
                        /\ log' = lg \o <<"response_matched">>
                        /\ steps' = <<>>
                        /\ payload_read' = None
                        /\ raised' = None
                        /\ UNCHANGED <<phase, exit_code, main_trace>>
                   ELSE Finish(The(ep), r.method, lg \o <<"response_matched">>, <<>>)
    /\ UNCHANGED <<cfgfile, files, config, endpoint_map>>

\* _interruptible_delay: one time.sleep(sleep_time) returns; after the last
\* one the handler runs on to its end
SleepChunk ==
    /\ phase = "serving"
    /\ pc = "delay"
    /\ LET e == The(endpoint)
           t == sleep_time(e.delay_ms, elapsed)
           el == elapsed + t
           st == steps \o <<Step("sleep", t)>>
       IN  /\ elapsed' = el
           /\ IF ~delay_done(e.delay_ms, el)
              THEN /\ steps' = st
                   /\ UNCHANGED <<pc, resp, raised, log, payload_read, phase,
                                  exit_code, main_trace>>
              ELSE Finish(e, The(req).method, log, st)
    /\ UNCHANGED <<cfgfile, files, config, endpoint_map, req, endpoint>>

\* Ctrl+C before the server runs: main() logs the shutdown, sys.exit(0)
InterruptStartup ==
    /\ phase \in {"start", "loaded"}
    /\ Exit(0, <<"KeyboardInterrupt", "log_server_shutdown", "SystemExit">>)
    /\ UNCHANGED <<cfgfile, files, config, endpoint_map, pc, req,
                   endpoint, elapsed, payload_read, resp, raised, log, steps>>

\* Ctrl+C while serving.  Between requests run() ends on KeyboardInterrupt,
\* main() logs the shutdown and returns.  Inside a sleep it is raised in the
\* handler: the transport either lets it reach run() or answers 500 itself
\* and goes on.
Interrupt ==
    /\ phase = "serving"
    /\ \/ /\ Exit(0, <<"KeyboardInterrupt", "log_server_shutdown">>)
          /\ raised' = IF pc = "delay" THEN Some("KeyboardInterrupt") ELSE raised
          /\ UNCHANGED <<pc, resp>>
       \/ /\ pc = "delay"
          /\ pc' = "idle"
          /\ resp' = Some(ServerError)
          /\ raised' = Some("KeyboardInterrupt")
          /\ UNCHANGED <<phase, exit_code, main_trace>>
    /\ UNCHANGED <<cfgfile, files, config, endpoint_map, req, endpoint,
                   elapsed, payload_read, log, steps>>

Next ==
    \/ LoadConfig
    \/ ValidateOnly
    \/ StartServer
    \/ InterruptStartup
    \/ FileChange
    \/ \E r \in Requests : Dispatch(r)
    \/ SleepChunk
    \/ Interrupt

Spec == Init /\ [][Next]_vars

(***************************************************************************)
(* The delay loop over every delay_ms up to MaxDelayMs: one endpoint        *)
(* GET /foo with that delay, the server started, the request sent.          *)
(***************************************************************************)
DelayEndpoint(d) == Ep(GET, PathFoo, 200, d, Some(DocA), None)
DelayRequest == [method |-> GET, path |-> PathFoo, query |-> NoQuery]

InitDelay ==
    /\ cfgfile \in {CfgJson(<<DelayEndpoint(d)>>) : d \in 0..MaxDelayMs}
    /\ files = FileMissing
    /\ phase = "start"
    /\ exit_code = None
    /\ config = None
    /\ endpoint_map = EmptyMap
    /\ pc = "idle"
    /\ req = None
    /\ endpoint = None
    /\ elapsed = 0
    /\ payload_read = None
    /\ resp = None
    /\ raised = None
    /\ log = <<>>
    /\ steps = <<>>
    /\ main_trace = <<>>

NextDelay ==
    \/ LoadConfig
    \/ StartServer
    \/ Dispatch(DelayRequest)
    \/ SleepChunk

SpecDelay == InitDelay /\ [][NextDelay]_vars

(***************************************************************************)
(* Properties.                                                             *)
(***************************************************************************)
\* the handling of the request in req has ended
Done == ~IsNone(req) /\ pc = "idle"
\* ... and was not cut short by Ctrl+C
Interrupted == raised = Some("KeyboardInterrupt")
Completed == Done /\ ~Interrupted

ConfiguredEndpoints == IF IsNone(config) THEN <<>> ELSE The(config)

\* the content of a payload file as the handler found it, parsed
ParsedRead ==
    IF /\ ~IsNone(payload_read)
       /\ The(payload_read).exists
       /\ JsonParses(The(payload_read).text)
    THEN Some(json_load(The(payload_read).text))
    ELSE None

\* E's own payload: the inline value, or the parsed content of its file
OwnPayload(E) == IF ~IsNone(E.payload_inline) THEN E.payload_inline ELSE ParsedRead

\* C1 (as claimed): every endpoint of the loaded configuration, whatever its
\* position, method and path, answers a request for its method and path with
\* its own status and, unless 204 or HEAD, its own payload as JSON.
C1_EveryEndpointAnswers ==
    \A i \in 1..Len(ConfiguredEndpoints) :
        LET E == ConfiguredEndpoints[i]
        IN  (Completed /\ The(req).method = E.method /\ The(req).path = E.path)
            => /\ ~IsNone(resp)
               /\ The(resp).status = E.status
               /\ (E.status # 204 /\ The(req).method # HEAD)
                  => /\ The(resp).content_type = Some(AppJson)
                     /\ ~IsNone(OwnPayload(E))
                     /\ The(resp).body = json_dumps(The(OwnPayload(E)))

\* {"error": "endpoint not found"}
NotFoundBody ==
    <<123, 34, 101, 114, 114, 111, 114, 34, 58, 32, 34, 101, 110, 100, 112, 111,
      105, 110, 116, 32, 110, 111, 116, 32, 102, 111, 117, 110, 100, 34, 125>>

IsNotFoundAnswer ==
    /\ ~IsNone(resp)
    /\ The(resp).by = "dispatcher"
    /\ The(resp).status = 404
    /\ The(resp).content_type = Some(AppJson)
    /\ The(resp).body = NotFoundBody
    /\ elapsed = 0

Miss == <<The(req).method, The(req).path>> \notin DOMAIN endpoint_map

RECURSIVE Lower(_)
Lower(p) ==
    IF p = <<>> THEN <<>>
    ELSE <<IF IsUpperChar(Head(p)) THEN Head(p) + 32 ELSE Head(p)>> \o Lower(Tail(p))

CaseOnly(p, q) == p # q /\ Lower(p) = Lower(q)
SlashOnly(p, q) == p = q \o <<47>> \/ q = p \o <<47>>

NoIdenticalEndpoint ==
    ~\E j \in 1..Len(ConfiguredEndpoints) :
        /\ ConfiguredEndpoints[j].method = The(req).method
        /\ ConfiguredEndpoints[j].path = The(req).path

NoQueryTwin(r) == [r EXCEPT !.query = NoQuery]

\* what the handlers give r when the payload file holds what was read
AnswerTo(r) ==
    LET ep == Match(r, endpoint_map)
    IN  IF IsNone(ep) THEN Some(NotFoundResponse)
        ELSE IF IsNone(OwnPayload(The(ep))) THEN None
        ELSE Some(MatchedResponse(The(ep), r.method, The(OwnPayload(The(ep)))))

\* C4: the query string takes no part in matching: a request the dispatcher
\* handles matched the endpoint its query-less twin matches, whatever its
\* query string, and is given the status, headers and body the twin is given.
C4_QueryIgnored ==
    (~IsNone(req) /\ Route(The(req)) # "none") =>
        LET r == The(req)
        IN  /\ endpoint = Match(NoQueryTwin(r), endpoint_map)
            /\ \A q \in RequestQueries :
                  Match([r EXCEPT !.query = q], endpoint_map)
                      = Match(NoQueryTwin(r), endpoint_map)
            /\ (Completed /\ IsNone(raised)) => resp = AnswerTo(NoQueryTwin(r))

C4_Witness ==
    /\ Completed
    /\ The(req).query # NoQuery
    /\ ~IsNone(endpoint)
    /\ The(endpoint).path = The(req).path
    /\ ~IsNone(resp)
    /\ The(resp).by = "dispatcher"
    /\ The(resp).status = The(endpoint).status

Matched204 == Completed /\ ~IsNone(endpoint) /\ The(endpoint).status = 204

IsNoContentAnswer ==
    /\ ~IsNone(resp)
    /\ The(resp).by = "dispatcher"
    /\ The(resp).status = 204
    /\ The(resp).body = <<>>
    /\ The(resp).content_type = None
    /\ The(resp).content_length = None

\* C5 (as claimed): a matched 204 endpoint answers 204 with an empty body, no
\* Content-Type and no Content-Length, whatever its payload source and
\* whatever its payload file holds.
C5_Always204 == Matched204 => IsNoContentAnswer

\* C5 (amended): a matched 204 endpoint whose payload resolves at request
\* time (inline, or a file that is readable and valid JSON when read) answers
\* 204 with an empty body, no Content-Type and no Content-Length, whatever
\* the payload and the request method, HEAD included.
C5_ResolvedPayload204 ==
    (Matched204 /\ ~IsNone(OwnPayload(The(endpoint)))) => IsNoContentAnswer

C5_Witness ==
    /\ Matched204
    /\ The(req).method = HEAD
    /\ ~IsNone(OwnPayload(The(endpoint)))
    /\ IsNoContentAnswer

\* C6: a HEAD request that matched an endpoint with a status other than 204
\* gets the configured status, Content-Type application/json, no body, and a
\* Content-Length that is the UTF-8 byte length of the payload's JSON
\* serialization: the length of the body a GET resolving to the same payload
\* would be given.
C6_HeadContentLength ==
    ( /\ Completed
      /\ ~IsNone(endpoint)
      /\ The(req).method = HEAD
      /\ The(endpoint).status # 204
      /\ ~IsNone(OwnPayload(The(endpoint))) )
    => LET E == The(endpoint)
           payload == The(OwnPayload(E))
       IN  /\ ~IsNone(resp)
           /\ The(resp).by = "dispatcher"
           /\ The(resp).status = E.status
           /\ The(resp).content_type = Some(AppJson)
           /\ The(resp).body = <<>>
           /\ The(resp).content_length = Some(Utf8Len(json_dumps(payload)))
           /\ The(resp).content_length
                 = Some(Utf8Len(MatchedResponse(E, GET, payload).body))

C6_Witness ==
    /\ Completed
    /\ ~IsNone(endpoint)
    /\ The(req).method = HEAD
    /\ The(endpoint).status # 204
    /\ ~IsNone(payload_read)
    /\ ~IsNone(resp)
    /\ The(resp).by = "dispatcher"
    /\ ~IsNone(The(resp).content_length)
    /\ The(The(resp).content_length) > Len(json_dumps(The(OwnPayload(The(endpoint)))))

\* C7 (as claimed): while a request waits in its delay, another arriving
\* request can be accepted and handled.
C7_DelayDoesNotBlock ==
    (phase = "serving" /\ pc = "delay") => ENABLED (\E r \in Requests : Dispatch(r))

\* the handler found the payload file unreadable or not valid JSON
PayloadErrorAtRequest == ~IsNone(payload_read) /\ IsNone(ParsedRead)

C9_NoResponseBeforeDelay ==
    /\ pc = "delay" =>
          /\ IsNone(resp)
          /\ elapsed < The(endpoint).delay_ms
    /\ ( /\ ~IsNone(endpoint)
         /\ ~IsNone(resp)
         /\ The(resp).by = "dispatcher" )
       => elapsed >= The(endpoint).delay_ms

C9_Witness ==
    /\ Completed
    /\ ~IsNone(endpoint)
    /\ The(endpoint).delay_ms = 250
    /\ ~IsNone(resp)
    /\ The(resp).by = "dispatcher"
    /\ The(resp).status = The(endpoint).status
    /\ elapsed = 250

\* the construction rules, as the claim words them
UpperCase(m) ==
    /\ \A i \in 1..Len(m) : m[i] \notin 97..122
    /\ \E i \in 1..Len(m) : m[i] \in 65..90
PayloadSources(e) == Len(e.payload_inline) + Len(e.payload_file)
WellFormed(e) ==
    /\ UpperCase(e.method)
    /\ e.status \in 100..599
    /\ e.delay_ms >= 0
    /\ PayloadSources(e) = 1

\* C10: construction rejects every endpoint with a method that is not
\* upper-case, a status outside [100,599], a negative delay, or zero or two
\* payload sources, and rejects the empty endpoint list: no Config is built
\* from such a file.  Hence while the dispatcher serves, the table is
\* non-empty and every endpoint in it is well-formed.
C10_ConstructionRejects ==
    /\ ( /\ cfgfile.kind = "json"
         /\ \/ cfgfile.endpoints = <<>>
            \/ \E i \in 1..Len(cfgfile.endpoints) : ~WellFormed(cfgfile.endpoints[i]) )
       => (IsNone(config) /\ phase \in {"start", "exited"})
    /\ phase = "serving" =>
          /\ DOMAIN endpoint_map # {}
          /\ \A k \in DOMAIN endpoint_map : WellFormed(endpoint_map[k])
          /\ ConfiguredEndpoints # <<>>
          /\ \A i \in 1..Len(ConfiguredEndpoints) : WellFormed(ConfiguredEndpoints[i])

C10_Witness ==
    /\ phase = "exited"
    /\ exit_code = Some(1)
    /\ IsNone(config)
    /\ cfgfile.kind = "json"
    /\ Len(cfgfile.endpoints) = 2
    /\ WellFormed(cfgfile.endpoints[1])
    /\ PayloadSources(cfgfile.endpoints[2]) = 2

\* the step of main() that calls load_config
LoadStep == phase = "start" /\ main_trace' # main_trace /\ Head(main_trace') = "load_config"

\* the paths the endpoints eps name as payload_file, whatever string each is
NamedFiles(eps) ==
    { The(eps[i].payload_file) : i \in {j \in 1..Len(eps) : ~IsNone(eps[j].payload_file)} }

\* C11: load_config returns a Config only if every endpoint with payload_file
\* set (any string) names a path that exists when the configuration is loaded;
\* if a named path is missing no Config is returned and the load ends in
\* SystemExit(1).
C11_NamedFilesExist ==
    [][ LoadStep =>
          IF \A n \in NamedFiles(cfgfile.endpoints) : PathExists(n, files)
          THEN TRUE
          ELSE /\ IsNone(config')
               /\ phase' = "exited"
               /\ exit_code' = Some(1) ]_vars

\* load_config was called
LoadTried == main_trace # <<>> /\ Head(main_trace) = "load_config"

\* two of the endpoints eps have the same (method, path)
HasDuplicateKey(eps) ==
    \E i, j \in 1..Len(eps) : i < j /\ EndpointKey(eps[i]) = EndpointKey(eps[j])

\* C12: a configuration in which two endpoints share a (method, path) pair is
\* rejected at startup: once load_config was called no Config exists, the
\* process has exited with status 1, and no table was ever built in which
\* one configured endpoint replaced another.
C12_DuplicatesRejected ==
    (LoadTried /\ HasDuplicateKey(cfgfile.endpoints))
    => /\ IsNone(config)
       /\ phase = "exited"
       /\ exit_code = Some(1)
       /\ endpoint_map = EmptyMap

\* x is one of the events of the sequence t
Has(t, x) == \E i \in 1..Len(t) : t[i] = x

\* the ways main() ends, read off what it did
ConfigErrorExit == main_trace = <<"load_config", "SystemExit">>
PortCheckExit ==
    /\ Len(main_trace) = 3
    /\ main_trace[2] = "check_port_available"
    /\ main_trace[3] = "SystemExit"
BindErrorExit == Has(main_trace, "OSError")
RuntimeErrorExit == Has(main_trace, "Exception")
CleanShutdown == Has(main_trace, "KeyboardInterrupt")
ValidateRun == Has(main_trace, "validate_config")

C13_ValidateReached == phase = "exited" /\ ValidateRun /\ exit_code = Some(0)

\* the names console_formatter.py defines at module level (def ...)
console_formatter_defines ==
    { "log_request_received", "log_response_matched", "log_response_not_found",
      "log_server_startup", "log_server_shutdown", "log_delay_start",
      "_print_json_payload", "format_payload_source" }

\* from .console_formatter import (...) in request_handler.py
request_handler_imports ==
    { "log_request_received", "log_response_matched", "log_response_not_found",
      "log_response_sent", "format_payload_source" }

\* every name the dispatcher imports from the logging module is defined there
ImportsResolve == request_handler_imports \subseteq console_formatter_defines

\* the dispatcher handled the request in req and returned a response
Answered ==
    /\ Done
    /\ IsNone(raised)
    /\ Route(The(req)) # "none"

\* C14: for every handled request the observer gets exactly one "request
\* received", then exactly one of "response matched" and "response not found"
\* (matched exactly when the request's key is in the table), and last exactly
\* one "response sent", on every outcome (normal, 204, HEAD, 404); and the
\* "response sent" notification is defined by the logging module the
\* dispatcher imports it from.
C14_Notifications ==
    /\ ImportsResolve
    /\ Answered
        => LET second == IF endpoint_key(The(req)) \in DOMAIN endpoint_map
                         THEN "response_matched"
                         ELSE "response_not_found"
           IN  log = <<"request_received", second, "response_sent">>

\* the three notifications as the handlers make them, the import left aside
C14_OrderOnly ==
    Answered
        => LET second == IF endpoint_key(The(req)) \in DOMAIN endpoint_map
                         THEN "response_matched"
                         ELSE "response_not_found"
           IN  log = <<"request_received", second, "response_sent">>

\* the table's entry for the request's own method and path
TableEntry(r) ==
    IF <<r.method, r.path>> \in DOMAIN endpoint_map
    THEN Some(endpoint_map[<<r.method, r.path>>])
    ELSE None

\* the response to request r as a function of its method and path, the table
\* and the payload file as it was when read, and of nothing else
ResponseFor(r) ==
    IF r.method \notin RoutedMethods THEN MethodNotAllowed
    ELSE IF IsNone(TableEntry(r)) THEN NotFoundResponse
    ELSE LET e == The(TableEntry(r))
             payload == IF ~IsNone(e.payload_inline) THEN e.payload_inline
                        ELSE load_payload_file(The(e.payload_file), The(payload_read))
         IN  IF IsNone(payload) THEN ServerError
             ELSE MatchedResponse(e, r.method, The(payload))

\* a response was given to the request in req, and no interrupt cut it short
Responded == Completed /\ ~IsNone(resp)

DependsOnRequestOnly ==
    Responded
    => /\ resp = Some(ResponseFor(The(req)))
       /\ Route(The(req)) # "none" => endpoint = TableEntry(The(req))

\* C15: the dispatcher is stateless and the table read-only after startup:
\* whatever requests were handled since (matched, unmatched or failing), the
\* configuration and the table are still what startup built from the
\* configuration file, and the response to a request is a function of its
\* method and path, the table and the payload file content alone, so
\* identical requests get identical responses whatever was handled before.
C15_Stateless ==
    /\ Has(main_trace, "create_app")
        => /\ config = Some(cfgfile.endpoints)
           /\ endpoint_map = create_app(cfgfile.endpoints)
    /\ DependsOnRequestOnly

\* a file-backed endpoint answered with what the file held when read, after
\* some request was handled
C15_Witness ==
    /\ Responded
    /\ phase = "serving"
    /\ ~IsNone(endpoint)
    /\ IsNone(The(endpoint).payload_inline)
    /\ The(resp).by = "dispatcher"
    /\ The(resp).body # <<>>
    /\ files # The(payload_read)

\* C16: an interrupt that arrives while a request is inside its delay is
\* acted on at once (within the current sleep): the delay is abandoned short
\* of delay_ms, no response is made, the server stops, the shutdown is logged
\* and the process ends with exit code 0.
C16_InterruptEndsDelay ==
    Interrupted
    => /\ elapsed < The(endpoint).delay_ms
       /\ IsNone(resp)
       /\ phase = "exited"
       /\ exit_code = Some(0)
       /\ Has(main_trace, "log_server_shutdown")

\* the positions in steps of the steps named op
StepsOf(op) == { i \in 1..Len(steps) : steps[i].op = op }
Before(a, b) == \A i \in StepsOf(a), j \in StepsOf(b) : i < j

\* a payload file could not be read or parsed for the request in req
PayloadFailed == raised = Some("SystemExit")

\* C17 (as claimed): the payload is resolved first, then the delay runs, then
\* the status is set: a payload failure is detected before any delay is spent
\* and before the status is assigned.
C17_PayloadBeforeDelay ==
    /\ Before("payload", "sleep")
    /\ Before("sleep", "status")
    /\ Before("payload", "status")
    /\ PayloadFailed => (elapsed = 0 /\ StepsOf("status") = {})

\* C17 (corrected): the delay runs first, then the status is set, and the
\* payload is obtained last: nothing is read while the delay runs, and a
\* payload failure is detected only after the whole delay was spent and the
\* status assigned.
C17_DelayStatusPayload ==
    /\ Before("sleep", "status")
    /\ Before("sleep", "payload")
    /\ Before("status", "payload")
    /\ pc = "delay"
        => (IsNone(payload_read) /\ StepsOf("status") = {} /\ StepsOf("payload") = {})
    /\ (~IsNone(payload_read) \/ PayloadFailed)
        => /\ elapsed >= The(endpoint).delay_ms
           /\ StepsOf("status") # {}
           /\ StepsOf("payload") # {}

\* the file of a delayed endpoint failed to parse, after the whole delay
C17_Witness ==
    /\ PayloadFailed
    /\ The(endpoint).delay_ms = 250
    /\ elapsed = 250
    /\ StepsOf("sleep") = {1, 2, 3}
    /\ StepsOf("status") = {4}
    /\ StepsOf("payload") = {5}

\* ceil(a / b) for a >= 0, b > 0
CeilDiv(a, b) == (a + b - 1) \div b

\* the sum of the durations of the first n steps
RECURSIVE SumMs(_)
SumMs(n) == IF n = 0 THEN 0 ELSE steps[n].ms + SumMs(n - 1)

\* the sleeps made so far for the request in req are the first n steps, each
\* of at most 100 ms and more than none, all but the last n-th of 100 ms
SleepsWellFormed(n, d) ==
    /\ StepsOf("sleep") = 1..n
    /\ \A i \in 1..n :
         /\ steps[i].ms > 0
         /\ steps[i].ms <= 100
         /\ (i < CeilDiv(d, 100)) => steps[i].ms = 100

====
